---------------------------- MODULE Spec2Model ----------------------------
(***************************************************************************)
(* Model of src/Kline2.py: the day-file session loader and the trading     *)
(* ledger of TradingSimulator (_start_simulation, _reset_trading_state,    *)
(* _execute_trade), the byte-level decoder read_day_file and the           *)
(* statistics of _show_summary.                                            *)
(*                                                                         *)
(* Money.  The source keeps prices as raw/100 (raw is the unsigned integer *)
(* stored in the day file) and cash in yuan.  The model keeps every        *)
(* monetary value in hundredths of a yuan: a price is its stored integer   *)
(* raw, cash starts at INITIAL_CAPITAL * PRICE_SCALE.  Quotients such as   *)
(* cash // price are the same in both units.  The arithmetic of the model  *)
(* is exact; the rounding of IEEE doubles in the source is not modelled.   *)
(*                                                                         *)
(* Dialogs.  The variable notice holds the last message the handlers       *)
(* showed (messagebox.showinfo / showwarning / showerror) or "info" when   *)
(* the handler ended by refreshing the info label.  Texts are tags:        *)
(*   end_of_data          "已到达数据末尾"        (line 205)               *)
(*   already_holding      "请先卖出当前持仓"      (line 215)               *)
(*   no_cash              "可用资金不足"          (line 218)               *)
(*   no_position          "没有可卖出的持仓"      (line 226)               *)
(*   no_market            "请先选择市场类型"      (line 160)               *)
(*   no_path              "...数据路径不存在"     (line 165)               *)
(*   no_files             "该市场没有有效数据文件" (line 171)              *)
(*   decode_error         "文件读取失败: ..."     (line 76)                *)
(*   insufficient_history "需要至少 N 天历史数据" (line 179)               *)
(*   no_trades            "暂无交易记录"          (line 325)               *)
(*   result               the figures of the summary (line 363), kept in   *)
(*                        the variable summary                             *)
(*                                                                         *)
(* Specifications.  Spec is the simulator as its buttons drive it.         *)
(* SpecStats applies _show_summary to trade logs and equity curves drawn   *)
(* from bounded sets; SpecDecode applies read_day_file to byte buffers     *)
(* drawn from a bounded set.                                               *)
(***************************************************************************)
EXTENDS Integers, Sequences, FiniteSets, TLC

\* ------------------------------------------------------------ configuration

\* INITIAL_CAPITAL = 100000 (yuan)
INITIAL_CAPITAL == 100000

\* the divisor of raw_data[k]/100: hundredths per yuan
PRICE_SCALE == 100

\* the 32 of len(buffer) // 32 and buffer[i*32:(i+1)*32]
RECORD_SIZE == 32

\* SIMULATION_DAYS: 120 in the source (line 17); the model replays a shorter
\* simulation window so that every session can be explored to its end.
SIMULATION_DAYS == 5

\* self.current_index = 64: the cursor a session starts at
START_INDEX == 64

\* the 65 of required_days = SIMULATION_DAYS + 65
LOOKBACK_DAYS == 65

\* How many bars the long day file has beyond required_days: the start index
\* of a session is drawn from 0..MaxSlack.
MaxSlack == 2

InitialCash == INITIAL_CAPITAL * PRICE_SCALE

required_days == SIMULATION_DAYS + LOOKBACK_DAYS

\* ------------------------------------------------------------ day files

\* The date of the k-th record (k from 0) of a well-formed file, as the
\* integer YYYYMMDD: strictly increasing, every value a calendar date.
DateOf(k) == (2001 + (k \div 336)) * 10000 + (1 + ((k \div 28) % 12)) * 100 + (1 + (k % 28))

\* A close above the initial capital: no share of it is affordable.
PriceyClose == 2 * INITIAL_CAPITAL * PRICE_SCALE

CheapCloses == <<30000, 33333, 36000, 30000>>

ShortCloses == <<31000, 29000, 33333, 35000>>

\* One unpacked record, as struct.unpack('IIIIIfII', ...) returns it:
\* <<date, open, high, low, close, amount, volume, reserved>>.
RawRecord(date, close, k) == <<date, close, close + 100, close - 100, close, 0, 1000 + k, 0>>

\* The close of record k of the long file: the bar at index 64 costs more
\* than the initial capital, the later ones do not.
LongClose(k) == IF k <= START_INDEX THEN PriceyClose ELSE CheapCloses[(k % 4) + 1]

\* The files of the data directory (os.listdir filtered by name), each as the
\* sequence of its 32-byte records, field by field.
FileNames == {"sh600001.day", "sz000002.day", "sz000003.day", "sh600004.day"}

DayFile(name) ==
    CASE name = "sh600001.day" ->
           [i \in 1..(required_days + MaxSlack) |-> RawRecord(DateOf(i - 1), LongClose(i - 1), i - 1)]
      [] name = "sz000002.day" ->
           [i \in 1..(required_days - 1) |-> RawRecord(DateOf(i - 1), ShortCloses[((i - 1) % 4) + 1], i - 1)]
      [] name = "sz000003.day" ->
           [i \in 1..3 |-> RawRecord(DateOf(i - 1), 30000, i - 1)]
      [] OTHER ->
           [i \in 1..2 |-> RawRecord(IF i = 2 THEN 20011301 ELSE DateOf(0), 30000, i - 1)]

\* The four bytes of an unsigned 32-bit field, least significant first
\* (struct's native order on the machines the program runs on).
FieldBytes(value) == [b \in 1..4 |-> (value \div (256 ^ (b - 1))) % 256]

\* The bytes of a file made of the given records, 32 per record.
PackFile(records) ==
    [j \in 1..(RECORD_SIZE * Len(records)) |->
        FieldBytes(records[((j - 1) \div RECORD_SIZE) + 1][(((j - 1) % RECORD_SIZE) \div 4) + 1])[((j - 1) % 4) + 1]]

\* ------------------------------------------------------------ read_day_file

\* One 'I' field of struct.unpack: the unsigned integer held by the four
\* bytes after offset (counted from 0), least significant first.
UInt32(bytes, offset) ==
    bytes[offset + 1] + 256 * bytes[offset + 2] + 65536 * bytes[offset + 3]
        + 16777216 * bytes[offset + 4]

\* struct.unpack('IIIIIfII', buffer[i*32:(i+1)*32]): eight 4-byte fields;
\* the sixth is a float that read_day_file never uses and is kept as its
\* bit pattern.
Unpack(bytes, i) == [k \in 1..8 |-> UInt32(bytes, i * RECORD_SIZE + 4 * (k - 1))]


DaysInMonth(y, m) ==
    IF m = 2 THEN (IF (y % 4 = 0 /\ y % 100 # 0) \/ y % 400 = 0 THEN 29 ELSE 28)
    ELSE IF m \in {4, 6, 9, 11} THEN 30 ELSE 31

\* datetime.strptime(f"{raw}", "%Y%m%d") on an 8-digit number succeeds iff
\* the digits are a calendar date.
DateParses(d) ==
    LET y == d \div 10000
        m == (d \div 100) % 100
        dd == d % 100
    IN  /\ y >= 1000 /\ y <= 9999
        /\ m >= 1 /\ m <= 12
        /\ dd >= 1 /\ dd <= DaysInMonth(y, m)

\* One row of the frame: the index Date and the columns Open, High, Low,
\* Close (hundredths) and Volume (the seventh field).
DecodeRecord(raw) ==
    [Date |-> raw[1], Open |-> raw[2], High |-> raw[3], Low |-> raw[4],
     Close |-> raw[5], Volume |-> raw[7]]

\* Variant of NumRecords: a trailing partial record is counted.
NumRecords_RoundedUp(bytes) == (Len(bytes) + RECORD_SIZE - 1) \div RECORD_SIZE

\* num_records = len(buffer) // 32
NumRecords(bytes) == Len(bytes) \div RECORD_SIZE

\* read_day_file on the bytes f.read() returned: [err, data]; any exception
\* inside (a date that does not parse, a record cut short) becomes the
\* ValueError of line 76.
read_day_file(bytes) ==
    LET num_records == NumRecords(bytes)
    IN  IF \/ num_records * RECORD_SIZE > Len(bytes)
           \/ \E i \in 0..(num_records - 1) : ~DateParses(Unpack(bytes, i)[1])
        THEN [err |-> TRUE, data |-> <<>>]
        ELSE [err |-> FALSE,
              data |-> [i \in 1..num_records |-> DecodeRecord(Unpack(bytes, i - 1))]]

\* ------------------------------------------------------------ state

\* summary is what the statistics dialog of the last handler shows (none
\* when the last handler was not _show_summary or showed no figures);
\* buffer is the bytes under decoding when read_day_file is exercised on
\* its own, and empty in the simulator.
VARIABLES current_data, current_index, cash, position, trade_log,
          equity_curve, buy_signals, sell_signals, notice, summary, buffer

vars == <<current_data, current_index, cash, position, trade_log,
          equity_curve, buy_signals, sell_signals, notice, summary, buffer>>

\* The Trading Ledger: everything _reset_trading_state assigns.
ledger == <<current_index, cash, position, trade_log, equity_curve,
            buy_signals, sell_signals>>

Notice(title, text) == [title |-> title, text |-> text]

\* No statistics dialog is on screen.
NoSummary == <<>>

\* What a handler other than _show_summary does to the dialog state: the
\* statistics dialog is modal and was closed before the handler could run.
NoDialog == summary' = NoSummary /\ UNCHANGED buffer

\* TradingSimulator.__init__
Init ==
    /\ current_data = <<>>
    /\ current_index = START_INDEX
    /\ cash = InitialCash
    /\ position = 0
    /\ trade_log = <<>>
    /\ equity_curve = <<InitialCash>>
    /\ buy_signals = <<>>
    /\ sell_signals = <<>>
    /\ notice = Notice("info", "ready")
    /\ summary = NoSummary
    /\ buffer = <<>>

\* ------------------------------------------------------------ _start_simulation

\* The ways _start_simulation can raise before a file is read: market_var
\* is empty, os.path.exists says no, or no file name passes the filter.
EarlyFailures == {"no_market", "no_path", "no_files"}

\* read_day_file(os.path.join(data_path, stock_file)) for each file of the
\* directory
Decoded == [name \in FileNames |-> read_day_file(PackFile(DayFile(name)))]

\* len(self.current_data) < required_days
InsufficientHistory(data) == Len(data) < required_days

\* Variant of StartIndexes: the upper end is left out, as random.randrange
\* would.
StartIndexes_HalfOpen(data) == 0..(Len(data) - required_days - 1)

\* random.randint(0, len(self.current_data) - required_days): both ends included
StartIndexes(data) == 0..(Len(data) - required_days)

\* self.current_data.iloc[start_idx:start_idx+required_days]
Window(data, start_idx) ==
    [i \in 1..required_days |-> data[start_idx + i]]

\* Variant of ResetTradingState: the equity curve restarts empty.
ResetTradingState_EmptyCurve ==
    /\ current_index' = START_INDEX
    /\ cash' = InitialCash
    /\ position' = 0
    /\ trade_log' = <<>>
    /\ equity_curve' = <<>>
    /\ buy_signals' = <<>>
    /\ sell_signals' = <<>>

\* Variant of ResetTradingState: the markers of the previous session stay.
ResetTradingState_KeepsMarkers ==
    /\ current_index' = START_INDEX
    /\ cash' = InitialCash
    /\ position' = 0
    /\ trade_log' = <<>>
    /\ equity_curve' = <<InitialCash>>
    /\ UNCHANGED <<buy_signals, sell_signals>>

\* _reset_trading_state
ResetTradingState ==
    /\ current_index' = START_INDEX
    /\ cash' = InitialCash
    /\ position' = 0
    /\ trade_log' = <<>>
    /\ equity_curve' = <<InitialCash>>
    /\ buy_signals' = <<>>
    /\ sell_signals' = <<>>

\* A start that raises before read_day_file is called, or inside it:
\* nothing was assigned yet.
StartFails(text) ==
    /\ notice' = Notice("init_failed", text)
    /\ NoDialog
    /\ UNCHANGED <<current_data, ledger>>

\* Variant of LoadFile: the ledger is reset before the length is checked.
LoadFile_ResetFirst(stock_file) ==
    LET r == Decoded[stock_file]
    IN  IF r.err
        THEN StartFails("decode_error")
        ELSE IF InsufficientHistory(r.data)
        THEN /\ current_data' = r.data
             /\ ResetTradingState
             /\ notice' = Notice("init_failed", "insufficient_history")
             /\ NoDialog
        ELSE \E start_idx \in StartIndexes(r.data) :
                /\ current_data' = Window(r.data, start_idx)
                /\ ResetTradingState
                /\ notice' = Notice("info", "status")
                /\ NoDialog

\* The rest of _start_simulation once a file was chosen: line 174 assigns
\* self.current_data before the length is checked.
LoadFile(stock_file) ==
    LET r == Decoded[stock_file]
    IN  IF r.err
        THEN StartFails("decode_error")
        ELSE IF InsufficientHistory(r.data)
        THEN /\ current_data' = r.data
             /\ notice' = Notice("init_failed", "insufficient_history")
             /\ NoDialog
             /\ UNCHANGED ledger
        ELSE \E start_idx \in StartIndexes(r.data) :
                /\ current_data' = Window(r.data, start_idx)
                /\ ResetTradingState
                /\ notice' = Notice("info", "status")
                /\ NoDialog

StartSimulation ==
    \/ \E text \in EarlyFailures : StartFails(text)
    \/ \E stock_file \in FileNames : LoadFile(stock_file)

\* ------------------------------------------------------------ _execute_trade

Actions == {"buy", "sell", "hold"}

\* Variant of AtEndOfData: the bound is off by one (len instead of len - 1).
AtEndOfData_OffByOne(index, data) == index >= Len(data)

\* self.current_index >= len(self.current_data) - 1
AtEndOfData(index, data) == index >= Len(data) - 1

\* Variant of MaxShares: the quotient is rounded up instead of down.
MaxShares_RoundedUp(c, price) == (c + price - 1) \div price

\* self.cash // price (price > 0)
MaxShares(c, price) == c \div price

\* What one branch of the try block leaves behind: err is the exception it
\* raised ("none" when it ran through), cash and position are the fields as
\* they stand at that point, signal says whether the marker was written.
Outcome(err, c, q, signal) == [err |-> err, cash |-> c, position |-> q, signal |-> signal]

\* Variant of BuyBranch: the position is taken before the "already holding"
\* check, so the exception leaves the ledger changed.
BuyBranch_CheckAfter(c, q, price) ==
    LET max_shares == MaxShares(c, price)
    IN  IF max_shares < 1 THEN Outcome("no_cash", c, q, FALSE)
        ELSE IF q > 0 THEN Outcome("already_holding", c - max_shares * price, max_shares, FALSE)
        ELSE Outcome("none", c - max_shares * price, max_shares, TRUE)

\* Variant of BuyBranch: cash is reduced by the price of one share only.
BuyBranch_OneSharePaid(c, q, price) ==
    IF q > 0 THEN Outcome("already_holding", c, q, FALSE)
    ELSE LET max_shares == MaxShares(c, price)
         IN  IF max_shares < 1 THEN Outcome("no_cash", c, q, FALSE)
             ELSE Outcome("none", c - price, max_shares, TRUE)

\* if action == "buy"
BuyBranch(c, q, price) ==
    IF q > 0 THEN Outcome("already_holding", c, q, FALSE)
    ELSE LET max_shares == MaxShares(c, price)
         IN  IF max_shares < 1 THEN Outcome("no_cash", c, q, FALSE)
             ELSE Outcome("none", c - max_shares * price, max_shares, TRUE)

\* elif action == "sell"
SellBranch(c, q, price) ==
    IF q = 0 THEN Outcome("no_position", c, q, FALSE)
    ELSE Outcome("none", c + q * price, 0, TRUE)

\* neither branch is taken for "hold"
HoldBranch(c, q, price) == Outcome("none", c, q, FALSE)

Branch(action, c, q, price) ==
    CASE action = "buy" -> BuyBranch(c, q, price)
      [] action = "sell" -> SellBranch(c, q, price)
      [] OTHER -> HoldBranch(c, q, price)

\* Variant of TradeRecord: 'shares' is the position whatever the action.
TradeRecord_PositionAlways(date, action, price, q, c) ==
    [date |-> date, action |-> action, price |-> price, shares |-> q, cash |-> c]

\* the dict appended to self.trade_log; q and c are self.position and
\* self.cash after the branch
TradeRecord(date, action, price, q, c) ==
    [date |-> date, action |-> action, price |-> price,
     shares |-> IF action = "buy" THEN q ELSE 0, cash |-> c]

\* Variant of TotalValue: the position is left out of the total.
TotalValue_CashOnly(c, q, price) == c

\* total_value = self.cash + self.position * price
TotalValue(c, q, price) == c + q * price

\* signals.loc[date] = {'Price': price}: one row per date, a second write
\* to the same date replaces the first
SetSignal(signals, date, price) == (date :> price) @@ signals

\* Variant of CurrentBar: the bar after the cursor is read.
CurrentBar_Next(data, index) == data[index + 2]

\* self.current_data.iloc[self.current_index]
CurrentBar(data, index) == data[index + 1]

ExecuteTrade(action) ==
    IF AtEndOfData(current_index, current_data)
    THEN /\ notice' = Notice("tip", "end_of_data")
         /\ NoDialog
         /\ UNCHANGED <<current_data, ledger>>
    ELSE LET current_bar == CurrentBar(current_data, current_index)
             price == current_bar.Close
             date == current_bar.Date
             r == Branch(action, cash, position, price)
         IN  /\ cash' = r.cash
             /\ position' = r.position
             /\ buy_signals' = IF action = "buy" /\ r.signal
                                THEN SetSignal(buy_signals, date, price) ELSE buy_signals
             /\ sell_signals' = IF action = "sell" /\ r.signal
                                 THEN SetSignal(sell_signals, date, price) ELSE sell_signals
             /\ IF r.err = "none"
                THEN /\ trade_log' = Append(trade_log, TradeRecord(date, action, price, r.position, r.cash))
                     /\ equity_curve' = Append(equity_curve, TotalValue(r.cash, r.position, price))
                     /\ current_index' = current_index + 1
                     /\ notice' = Notice("info", "status")
                ELSE /\ notice' = Notice("trade_failed", r.err)
                     /\ UNCHANGED <<trade_log, equity_curve, current_index>>
             /\ NoDialog
             /\ UNCHANGED current_data

Buy == ExecuteTrade("buy")

Sell == ExecuteTrade("sell")

Hold == ExecuteTrade("hold")

\* ------------------------------------------------------------ _show_summary

\* A quotient the code computes in floating point, kept exact as the pair
\* of its operands.
Fraction(num, den) == [num |-> num, den |-> den]

\* a/b < c/d for a, c >= 0 and b, d > 0, by comparing the integer parts and
\* then the reciprocals of the remainders, so that no product is formed.
RECURSIVE FracLT(_, _, _, _)
FracLT(a, b, c, d) ==
    LET qa == a \div b
        qc == c \div d
        ra == a % b
        rc == c % d
    IN  IF qa # qc THEN qa < qc
        ELSE IF rc = 0 THEN FALSE
        ELSE IF ra = 0 THEN TRUE
        ELSE FracLT(d, rc, b, ra)

\* last_buy_price is None (no element) or a price (one element)
None == <<>>

\* "and last_buy_price": None and a price of 0 are both false
Truthy(last_buy_price) == last_buy_price # None /\ last_buy_price[1] # 0

\* trade['price'] > last_buy_price
IsWin(sell_price, buy_price) == sell_price > buy_price

\* The loop over self.trade_log from its i-th record on (lines 333-340),
\* with the three locals as they stand before that record.
RECURSIVE PairTrades(_, _, _, _, _)
PairTrades(log, i, win_trades, total_trades, last_buy_price) ==
    IF i > Len(log)
    THEN [win_trades |-> win_trades, total_trades |-> total_trades]
    ELSE LET trade == log[i]
         IN  IF trade.action = "buy"
             THEN PairTrades(log, i + 1, win_trades, total_trades, <<trade.price>>)
             ELSE IF trade.action = "sell" /\ Truthy(last_buy_price)
             THEN PairTrades(log, i + 1,
                             IF IsWin(trade.price, last_buy_price[1])
                             THEN win_trades + 1 ELSE win_trades,
                             total_trades + 1, None)
             ELSE PairTrades(log, i + 1, win_trades, total_trades, last_buy_price)

\* win_rate = win_trades / total_trades if total_trades > 0 else 0
WinRate(win_trades, total_trades) ==
    IF total_trades > 0 THEN Fraction(win_trades, total_trades) ELSE Fraction(0, 1)

\* Variant of NewPeak: the peak stays at the first value of the curve.
NewPeak_Frozen(peak, value) == peak

\* if value > peak: peak = value
NewPeak(peak, value) == IF value > peak THEN value ELSE peak

\* The loop over self.equity_curve from its i-th value on (lines 347-352),
\* with peak and max_drawdown as they stand before that value; err says
\* that (peak - value) / peak divided by zero.
RECURSIVE DrawdownLoop(_, _, _, _)
DrawdownLoop(curve, i, peak, max_drawdown) ==
    IF i > Len(curve)
    THEN [err |-> FALSE, max_drawdown |-> max_drawdown]
    ELSE LET value == curve[i]
             new_peak == NewPeak(peak, value)
             drawdown == Fraction(new_peak - value, new_peak)
         IN  IF new_peak = 0
             THEN [err |-> TRUE, max_drawdown |-> max_drawdown]
             ELSE IF FracLT(max_drawdown.num, max_drawdown.den, drawdown.num, drawdown.den)
             THEN DrawdownLoop(curve, i + 1, new_peak, drawdown)
             ELSE DrawdownLoop(curve, i + 1, new_peak, max_drawdown)

\* peak = self.equity_curve[0]; max_drawdown = 0; then the loop
MaxDrawdown(curve) == DrawdownLoop(curve, 1, curve[1], Fraction(0, 1))

\* self.equity_curve[-1] / INITIAL_CAPITAL - 1
TotalReturn(curve) == Fraction(curve[Len(curve)] - InitialCash, InitialCash)

\* The figures of the result text (lines 354-361).
Figures(log, curve) ==
    LET pairs == PairTrades(log, 1, 0, 0, None)
    IN  [initial |-> InitialCash,
         final |-> curve[Len(curve)],
         total_return |-> TotalReturn(curve),
         win_rate |-> WinRate(pairs.win_trades, pairs.total_trades),
         max_drawdown |-> MaxDrawdown(curve).max_drawdown,
         total_trades |-> pairs.total_trades]

\* Variant of ShowSummary: after the figures are shown the log is cleared.
ShowSummary_ClearsLog ==
    IF trade_log = <<>>
    THEN /\ notice' = Notice("stats", "no_trades")
         /\ summary' = NoSummary
         /\ UNCHANGED <<current_data, ledger, buffer>>
    ELSE /\ notice' = Notice("stats", "result")
         /\ summary' = <<Figures(trade_log, equity_curve)>>
         /\ trade_log' = <<>>
         /\ UNCHANGED <<current_data, current_index, cash, position, equity_curve,
                        buy_signals, sell_signals, buffer>>

\* _show_summary: nothing is caught, so a division by zero would end the
\* callback with no dialog.
ShowSummary ==
    IF trade_log = <<>>
    THEN /\ notice' = Notice("stats", "no_trades")
         /\ summary' = NoSummary
         /\ UNCHANGED <<current_data, ledger, buffer>>
    ELSE IF MaxDrawdown(equity_curve).err
    THEN /\ notice' = Notice("crash", "ZeroDivisionError")
         /\ summary' = NoSummary
         /\ UNCHANGED <<current_data, ledger, buffer>>
    ELSE /\ notice' = Notice("stats", "result")
         /\ summary' = <<Figures(trade_log, equity_curve)>>
         /\ UNCHANGED <<current_data, ledger, buffer>>

Next == StartSimulation \/ Buy \/ Sell \/ Hold \/ ShowSummary

Spec == Init /\ [][Next]_vars

\* ------------------------------------------------------------ properties

Last(seq) == seq[Len(seq)]

\* A step in which _execute_trade accepted an action: it appended a record.
Accepted == Len(trade_log') = Len(trade_log) + 1

AcceptedOf(action) == Accepted /\ Last(trade_log').action = action

\* The cursor is short of the last bar: _execute_trade goes on to the try block.
NonTerminal == current_index < Len(current_data) - 1

\* The close and the date of the bar under the cursor.
ClosePrice == current_data[current_index + 1].Close

BarDate == current_data[current_index + 1].Date

\* C1: once the cursor is at the last bar (session length - 1), every
\* _execute_trade call, whatever the action, shows the end-of-data message
\* and leaves cash, position, trade log, equity curve, markers, cursor and
\* bars unchanged.
C1_TerminalRejects ==
    [][\A a \in Actions :
          (current_index >= Len(current_data) - 1 /\ ExecuteTrade(a))
              => (notice' = Notice("tip", "end_of_data") /\ UNCHANGED <<ledger, current_data>>)]_vars

\* C1 witness: a session driven to its last bar with a position open, and a
\* trade attempt answered by the end-of-data message.
C1_Witness ==
    /\ Len(current_data) = required_days
    /\ current_index = Len(current_data) - 1
    /\ Len(trade_log) = SIMULATION_DAYS
    /\ position > 0
    /\ notice = Notice("tip", "end_of_data")

\* The reason the claimed preconditions give for rejecting action a in the
\* current state, "none" when they accept it.
RejectReason(a) ==
    IF a = "buy" /\ position > 0 THEN "already_holding"
    ELSE IF a = "buy" /\ ClosePrice > cash THEN "no_cash"
    ELSE IF a = "sell" /\ position = 0 THEN "no_position"
    ELSE "none"

\* The action a rejection message belongs to.
RejectedAction == IF notice.text = "no_position" THEN "sell" ELSE "buy"

\* C2: short of the last bar, a buy while holding, a buy with less cash than
\* one share costs, and a sell while flat are each rejected with their own
\* message and leave cash, position, trade log, equity curve, markers,
\* cursor and bars unchanged; and after such a rejection another action is
\* accepted at the same cursor.
C2_RejectionMutatesNothing ==
    /\ [][\A a \in Actions :
             (NonTerminal /\ RejectReason(a) # "none" /\ ExecuteTrade(a))
                 => (notice' = Notice("trade_failed", RejectReason(a))
                     /\ UNCHANGED <<ledger, current_data>>)]_vars
    /\ [](notice.title = "trade_failed"
            => \E b \in Actions \ {RejectedAction} :
                  ENABLED (ExecuteTrade(b) /\ Accepted /\ current_index' = current_index + 1))

\* C2 witness: a buy rejected for lack of cash, short of the last bar,
\* with nothing traded yet.
C2_Witness ==
    /\ notice = Notice("trade_failed", "no_cash")
    /\ NonTerminal
    /\ position = 0
    /\ ClosePrice > cash
    /\ trade_log = <<>>

\* C3: a start whose decoded file has fewer bars than required_days ends with
\* the insufficient-history failure, and a start that ends so leaves cursor,
\* cash, position, trade log, equity curve and markers as they were.
C3_ShortFileKeepsLedger ==
    [][/\ \A f \in FileNames :
             (~Decoded[f].err /\ Len(Decoded[f].data) < required_days /\ LoadFile(f))
                 => notice' = Notice("init_failed", "insufficient_history")
       /\ notice' = Notice("init_failed", "insufficient_history") => UNCHANGED ledger]_vars

\* C3 witness: the failure shown in the middle of a session, the position
\* still open.
C3_Witness ==
    /\ notice = Notice("init_failed", "insufficient_history")
    /\ position > 0
    /\ current_index > START_INDEX
    /\ Len(current_data) < required_days

C5_BuyKeepsEquity ==
    [][AcceptedOf("buy")
         => /\ Len(equity_curve') = Len(equity_curve) + 1
            /\ Last(equity_curve') = cash' + position' * ClosePrice
            /\ Last(equity_curve') = cash + position * ClosePrice
            /\ Last(equity_curve') = cash
            /\ Last(equity_curve') = Last(equity_curve)]_vars

\* C5 witness: a buy made after a winning round trip, the curve ending in
\* two equal entries above the initial capital.
C5_Witness ==
    /\ Len(trade_log) >= 3
    /\ Last(trade_log).action = "buy"
    /\ position > 0
    /\ Last(equity_curve) > InitialCash
    /\ equity_curve[Len(equity_curve) - 1] = Last(equity_curve)

\* What an accepted sell does to cash, position, log, curve and cursor.
SellBookkeeping ==
    /\ position > 0
    /\ cash' = cash + position * ClosePrice
    /\ position' = 0
    /\ trade_log' = Append(trade_log, Last(trade_log'))
    /\ Last(trade_log').action = "sell"
    /\ equity_curve' = Append(equity_curve, cash')
    /\ current_index' = current_index + 1
    /\ sell_signals'[BarDate] = ClosePrice
    /\ buy_signals' = buy_signals

\* C6: an accepted sell at close p with position q > 0 and cash c sets
\* cash' = c + q * p and position' = 0, adds one sell marker and one trade
\* record, appends one equity value equal to cash', and advances the cursor
\* by exactly 1.
C6_SellEffect ==
    [][AcceptedOf("sell")
         => /\ SellBookkeeping
            /\ Cardinality(DOMAIN sell_signals') = Cardinality(DOMAIN sell_signals) + 1]_vars

\* The part of C6 that holds of every accepted sell: the marker of the bar's
\* date is set to the price, whether or not that date was marked before.
C6_SellBookkeepingHolds == [][AcceptedOf("sell") => SellBookkeeping]_vars

\* C7: an accepted action taken with the cursor at index i writes the date
\* and the close of bar i to its trade record and prices the cash/position
\* update and the equity value with that close; and whenever the loaded bars
\* are a session (required_days bars), record k of the log (k from 0)
\* carries the date and the close of bar 64 + k.
C7_NoLookahead ==
    /\ [][Accepted
            => /\ trade_log' = Append(trade_log, Last(trade_log'))
               /\ Last(trade_log').date = BarDate
               /\ Last(trade_log').price = ClosePrice
               /\ cash' + position' * ClosePrice = cash + position * ClosePrice
               /\ Last(equity_curve') = cash' + position' * ClosePrice
               /\ current_index = START_INDEX + Len(trade_log)]_vars
    /\ [](Len(current_data) = required_days
            => \A k \in 1..Len(trade_log) :
                  /\ trade_log[k].date = current_data[START_INDEX + k].Date
                  /\ trade_log[k].price = current_data[START_INDEX + k].Close)

\* C7 witness: a session replayed to its end, a buy first and a sell second.
C7_Witness ==
    /\ Len(current_data) = required_days
    /\ Len(trade_log) = SIMULATION_DAYS
    /\ trade_log[1].action = "buy"
    /\ trade_log[2].action = "sell"
    /\ trade_log[1].price # trade_log[2].price

\* What C8 says of single steps: the cursor is 64 after a successful start,
\* grows by exactly 1 with each accepted action, and otherwise keeps its
\* value (a rejected action, a failed start).
C8_CursorSteps ==
    [][/\ Accepted => current_index' = current_index + 1
       /\ notice'.title \in {"tip", "trade_failed", "init_failed"} => current_index' = current_index
       /\ current_index' # current_index
            => (current_index' = current_index + 1 \/ current_index' = START_INDEX)
       /\ (notice'.title = "info" /\ ~Accepted) => current_index' = START_INDEX]_vars

\* C8: whenever bars are loaded the cursor is at most (number of bars - 1);
\* it is 64 after a successful start, grows by exactly 1 with each accepted
\* action, never decreases within a session and is unchanged by rejected
\* actions.
C8_CursorBounded ==
    /\ [](current_data # <<>> => current_index <= Len(current_data) - 1)
    /\ C8_CursorSteps

\* C9: cash and position are never negative.
C9_NonNegative == cash >= 0 /\ position >= 0

\* C9 witness: almost all cash spent on a position.
C9_Witness == position > 0 /\ cash < 1000 /\ Len(trade_log) >= 2

\* C10: the equity curve has one entry per accepted action plus the initial
\* capital (len(equity_curve) = len(trade_log) + 1 = cursor - 64 + 1), starts
\* with the initial capital, gets cash' + position' * (close of the bar under
\* the cursor) appended by each accepted action, and changes in no other way
\* within a session: a change is that append or the reset of a new session.
C10_EquityCurveShape ==
    /\ [](/\ Len(equity_curve) = Len(trade_log) + 1
           /\ Len(equity_curve) = current_index - START_INDEX + 1
           /\ equity_curve[1] = InitialCash)
    /\ [][Accepted => equity_curve' = Append(equity_curve, cash' + position' * ClosePrice)]_vars
    /\ [][equity_curve' # equity_curve
            => \/ Accepted /\ equity_curve' = Append(equity_curve, Last(equity_curve'))
               \/ /\ equity_curve' = <<InitialCash>>
                  /\ trade_log' = <<>>
                  /\ current_index' = START_INDEX
                  /\ Len(current_data') = required_days]_vars

\* C10 witness: a full session with the position still open, the last entry
\* marked to the close of the last bar traded.
C10_Witness ==
    /\ Len(current_data) = required_days
    /\ Len(equity_curve) = SIMULATION_DAYS + 1
    /\ position > 0
    /\ Last(equity_curve) # cash
    /\ Last(equity_curve) # equity_curve[Len(equity_curve) - 1]


\* A step of _start_simulation that ran through to the status update: the
\* only step that ends on the status text without appending a record.
SuccessfulStart == notice' = Notice("info", "status") /\ ~Accepted

\* C11: every successful start, from whatever state it is made (mid-session,
\* position open, log non-empty included), leaves the cursor at 64, the cash
\* at the initial capital, the position at 0, the trade log empty, the
\* equity curve equal to [initial capital] and both marker collections empty.
C11_StartResetsLedger ==
    [][SuccessfulStart =>
        /\ current_index' = START_INDEX
        /\ cash' = INITIAL_CAPITAL * PRICE_SCALE
        /\ position' = 0
        /\ trade_log' = <<>>
        /\ equity_curve' = <<INITIAL_CAPITAL * PRICE_SCALE>>
        /\ buy_signals' = <<>>
        /\ sell_signals' = <<>>]_vars

\* A position is open, the log and both marker collections are non-empty,
\* and a successful start can be made from here.
C11_Witness ==
    /\ position > 0
    /\ trade_log # <<>>
    /\ buy_signals # <<>>
    /\ sell_signals # <<>>
    /\ ENABLED (StartSimulation /\ SuccessfulStart)

\* The bars s..s+required_days-1 (counted from 0) of a decoded file.
BarsFrom(data, s) == SubSeq(data, s + 1, s + required_days)

\* The files of the directory that decode to at least required_days bars.
LongFiles == {f \in FileNames : ~Decoded[f].err /\ Len(Decoded[f].data) >= required_days}

\* C12: for a decoded file of n >= required_days bars every start index s
\* of 0..n-required_days can be drawn, both ends included; the session a
\* successful start installs is the run of bars s..s+required_days-1 of
\* that file in their order, of length exactly required_days, and so never
\* reaches past the end of the file.
C12_SessionWindow ==
    /\ [](\A f \in LongFiles :
            \A s \in 0..(Len(Decoded[f].data) - required_days) :
                ENABLED (LoadFile(f) /\ current_data' = BarsFrom(Decoded[f].data, s)))
    /\ [][SuccessfulStart =>
            /\ Len(current_data') = required_days
            /\ \E f \in LongFiles :
                   \E s \in 0..(Len(Decoded[f].data) - required_days) :
                       /\ s + required_days <= Len(Decoded[f].data)
                       /\ current_data' = BarsFrom(Decoded[f].data, s)]_vars

\* C12 witness: a session that starts at the last start index of its file,
\* so that its last bar is the last bar of the file.
C12_Witness ==
    /\ notice = Notice("info", "status")
    /\ trade_log = <<>>
    /\ \E f \in LongFiles :
           /\ Len(Decoded[f].data) > required_days
           /\ current_data = BarsFrom(Decoded[f].data, Len(Decoded[f].data) - required_days)
           /\ Last(current_data) = Last(Decoded[f].data)

\* ------------------------------------------------------------ statistics on their own

\* The longest trade log the statistics are exercised on.
MaxLogLen == 4

\* Closes of the records (hundredths): 8, 10 and 12 yuan, and the close 0 of
\* a bar whose stored close is 0.
StatPrices == {0, 800, 1000, 1200}

\* The record _execute_trade appends for the i-th bar traded; of its fields
\* _show_summary reads only action and price.
StatRecord(i, action, price) == TradeRecord(DateOf(START_INDEX + i - 1), action, price, 0, InitialCash)

\* Trade logs of n records.
StatLogs(n) ==
    {[i \in 1..n |-> StatRecord(i, choice[i][1], choice[i][2])] :
        choice \in [1..n -> Actions \X StatPrices]}

\* The i-th value of an equity curve that rises by a tenth, falls to 95% and
\* recovers to 105% of the initial capital, over and over.
SwingValue(i) ==
    CASE i % 4 = 1 -> InitialCash
      [] i % 4 = 2 -> InitialCash + InitialCash \div 10
      [] i % 4 = 3 -> InitialCash - InitialCash \div 20
      [] OTHER -> InitialCash + InitialCash \div 20

\* Equity curves for a log of n records: n + 1 values, flat or swinging.
StatCurves(n) == {[i \in 1..(n + 1) |-> InitialCash], [i \in 1..(n + 1) |-> SwingValue(i)]}

\* A simulator whose log and curve are given; the other fields are as the
\* construction leaves them, the cursor as many bars on as the log is long.
InitStats ==
    /\ current_data = <<>>
    /\ cash = InitialCash
    /\ position = 0
    /\ \E n \in 0..MaxLogLen :
           /\ current_index = START_INDEX + n
           /\ trade_log \in StatLogs(n)
           /\ equity_curve \in StatCurves(n)
    /\ buy_signals = <<>>
    /\ sell_signals = <<>>
    /\ notice = Notice("info", "status")
    /\ summary = NoSummary
    /\ buffer = <<>>

NextStats == ShowSummary

SpecStats == InitStats /\ [][NextStats]_vars

\* The pairs (i, j) of a log in which the sell j takes the pending buy i:
\* i is the last buy before j and no sell lies between them, that is, all
\* the records between them are holds.
PairsOf(log) ==
    {p \in (1..Len(log)) \X (1..Len(log)) :
        /\ p[1] < p[2]
        /\ log[p[1]].action = "buy"
        /\ log[p[2]].action = "sell"
        /\ \A k \in (p[1] + 1)..(p[2] - 1) : log[k].action = "hold"}

\* The pairs sold strictly above their entry price.
WinsOf(log) == {p \in PairsOf(log) : log[p[2]].price > log[p[1]].price}

\* The figures on screen pair the log as PairsOf does: the trade count is
\* the number of pairs, and the win rate is wins / pairs, or 0 without pairs.
PairedAsStated ==
    summary # NoSummary =>
        LET shown == summary[1]
            pairs == Cardinality(PairsOf(trade_log))
            wins == Cardinality(WinsOf(trade_log))
        IN  /\ shown.total_trades = pairs
            /\ IF pairs = 0
               THEN shown.win_rate.num = 0
               ELSE shown.win_rate.num * pairs = wins * shown.win_rate.den

\* [buy@10, sell@12, buy@8, sell@8]
ExampleLog ==
    <<StatRecord(1, "buy", 1000), StatRecord(2, "sell", 1200),
      StatRecord(3, "buy", 800), StatRecord(4, "sell", 800)>>

\* C13: over any trade log, each sell is paired with the most recent
\* preceding buy that is still pending, a pair wins only when the sell price
\* is strictly above the buy price, the win rate is wins / pairs and is 0,
\* with no division, when there is no pair; [buy@10, sell@12, buy@8, sell@8]
\* gives 1 win of 2 pairs.
C13_WinRatePairing ==
    /\ PairedAsStated
    /\ notice # Notice("crash", "ZeroDivisionError")
    /\ Figures(ExampleLog, <<InitialCash>>).total_trades = 2
    /\ Figures(ExampleLog, <<InitialCash>>).win_rate = Fraction(1, 2)

\* What holds of C13: the same, over the logs whose buys are all at a
\* price above 0.
C13_PositiveBuysPair ==
    (\A i \in 1..Len(trade_log) : trade_log[i].action = "buy" => trade_log[i].price > 0)
        => C13_WinRatePairing

\* P_i = max(e[1..i]): the highest value of the curve up to its i-th.
PeakAt(curve, i) == CHOOSE v \in {curve[k] : k \in 1..i} : \A k \in 1..i : curve[k] <= v

\* (P_i - e[i]) / P_i
DrawdownAt(curve, i) == Fraction(PeakAt(curve, i) - curve[i], PeakAt(curve, i))

FracEq(x, y) == ~FracLT(x.num, x.den, y.num, y.den) /\ ~FracLT(y.num, y.den, x.num, x.den)

\* md is the largest of the drawdowns (P_i - e[i]) / P_i of the curve.
IsMaxDrawdownOf(md, curve) ==
    /\ \E i \in 1..Len(curve) : FracEq(md, DrawdownAt(curve, i))
    /\ \A i \in 1..Len(curve) :
           ~FracLT(md.num, md.den, DrawdownAt(curve, i).num, DrawdownAt(curve, i).den)

NonDecreasing(curve) == \A i \in 1..(Len(curve) - 1) : curve[i] <= curve[i + 1]

\* [100000, 110000, 95000, 105000]
ExampleCurve ==
    <<INITIAL_CAPITAL, INITIAL_CAPITAL + INITIAL_CAPITAL \div 10,
      INITIAL_CAPITAL - INITIAL_CAPITAL \div 20, INITIAL_CAPITAL + INITIAL_CAPITAL \div 20>>

\* C14: for every equity curve the ledger can reach, the max drawdown is the
\* largest (P_i - e[i]) / P_i with P_i the running peak; it is 0 on a
\* non-decreasing curve, the peak is never 0 (no division by zero), the
\* result lies in [0, 1], the figure shown is this value, and
\* [100000, 110000, 95000, 105000] gives 15000/110000.
C14_MaxDrawdown ==
    LET r == MaxDrawdown(equity_curve)
        md == r.max_drawdown
    IN  /\ ~r.err
        /\ \A i \in 1..Len(equity_curve) : PeakAt(equity_curve, i) > 0
        /\ IsMaxDrawdownOf(md, equity_curve)
        /\ NonDecreasing(equity_curve) => md.num = 0
        /\ 0 <= md.num /\ md.num <= md.den
        /\ summary # NoSummary => /\ summary[1].max_drawdown = md
                                  /\ notice = Notice("stats", "result")
        /\ notice # Notice("crash", "ZeroDivisionError")
        /\ MaxDrawdown(ExampleCurve).max_drawdown
               = Fraction(INITIAL_CAPITAL \div 20 + INITIAL_CAPITAL \div 10,
                          INITIAL_CAPITAL + INITIAL_CAPITAL \div 10)

\* C14 witness: the statistics are on screen for a curve that rose above the
\* initial capital and fell back below a later, higher peak, so that the
\* drawdown is measured from a peak other than the first value.
C14_Witness ==
    /\ summary # NoSummary
    /\ summary[1].max_drawdown.num > 0
    /\ summary[1].max_drawdown.den > equity_curve[1]
    /\ \E i \in 1..Len(equity_curve) : equity_curve[i] < equity_curve[1]

\* The records already in the log stay as they are: a step leaves the log
\* alone, appends one record to it, or is a successful start, which begins
\* the log of a new session.
LogAppendOnly ==
    \/ trade_log' = trade_log
    \/ Accepted /\ SubSeq(trade_log', 1, Len(trade_log)) = trade_log
    \/ SuccessfulStart /\ trade_log' = <<>>

\* C15 as stated: the record every accepted action appends carries, in
\* 'shares', the position held right after the action and, in 'cash', the
\* cash right after it; records already in the log are never changed.
C15_RecordCarriesState ==
    /\ [][Accepted => /\ Last(trade_log').shares = position'
                      /\ Last(trade_log').cash = cash']_vars
    /\ [][LogAppendOnly]_vars

\* C15, amended: 'shares' is the position right after an accepted buy or
\* sell and 0 for a hold, also while a position is held; 'cash' is the
\* cash right after the action; records already in the log are never changed.
C15_RecordFields ==
    /\ [][Accepted =>
            /\ Last(trade_log').action \in {"buy", "sell"} => Last(trade_log').shares = position'
            /\ Last(trade_log').action = "hold" => Last(trade_log').shares = 0
            /\ Last(trade_log').cash = cash']_vars
    /\ [][LogAppendOnly]_vars

\* C15 witness: the last record is a hold made while a position is held; an
\* earlier buy record is still in the log with the shares it bought.
C15_Witness ==
    /\ Len(trade_log) >= 2
    /\ Last(trade_log).action = "hold"
    /\ position > 0
    /\ Last(trade_log).shares = 0
    /\ Last(trade_log).cash = cash
    /\ \E i \in 1..(Len(trade_log) - 1) :
           trade_log[i].action = "buy" /\ trade_log[i].shares = position

\* What an accepted hold does: cash, position and markers stay, one record
\* with action hold and shares 0 and one equity value, cash + position *
\* close of the bar at the cursor, are appended, the cursor moves on by one.
HoldEffect ==
    /\ AcceptedOf("hold")
    /\ UNCHANGED <<cash, position, buy_signals, sell_signals, current_data>>
    /\ trade_log' = Append(trade_log,
           [date |-> BarDate, action |-> "hold", price |-> ClosePrice, shares |-> 0, cash |-> cash])
    /\ equity_curve' = Append(equity_curve, cash + position * ClosePrice)
    /\ current_index' = current_index + 1

\* In every non-terminal state a hold can be made, and every hold made
\* there has the effect of HoldEffect.
HoldAccepted ==
    /\ [](NonTerminal => ENABLED (Hold /\ Accepted))
    /\ [][(NonTerminal /\ Hold) => HoldEffect]_vars

\* The bars are those a successful start installed: they passed the
\* length check.
SessionStarted == Len(current_data) = required_days

\* The cursor is at the last bar of the bars loaded.
Terminal == current_data # <<>> /\ ~NonTerminal

\* The terminal state is the one with exactly SIMULATION_DAYS accepted
\* actions in the log.
TerminalAtLastDay == Terminal <=> Len(trade_log) = SIMULATION_DAYS

\* C16: in every non-terminal state of a started session a hold is
\* accepted whatever the cash and position, with the effect of HoldEffect;
\* so the session can always be driven on to its terminal state, and in a
\* started session, and after whatever is done in it, the terminal state
\* is the one with exactly SIMULATION_DAYS (120 in the source) accepted
\* actions.
C16_HoldDrivesSession ==
    /\ HoldAccepted
    /\ [](SessionStarted => TerminalAtLastDay)
    /\ [][SessionStarted => TerminalAtLastDay']_vars

\* What holds of C16: the effect of the hold in every non-terminal state,
\* and the count of accepted actions while the bars are those a
\* successful start installed.
C16_HoldOnCheckedBars ==
    /\ HoldAccepted
    /\ [](SessionStarted => TerminalAtLastDay)
    /\ [][(SessionStarted /\ SessionStarted') => TerminalAtLastDay']_vars

\* A step of _show_summary: the only handler that leaves a statistics
\* notice (or ends on the division error).
SummaryStep == notice'.title \in {"stats", "crash"}

\* The figures on screen are those of the trade log and the equity curve
\* of the state they are shown in, whatever the cursor and the bars.
FiguresFromLogAndCurve ==
    summary # NoSummary =>
        LET shown == summary[1]
        IN  /\ shown.initial = INITIAL_CAPITAL * PRICE_SCALE
            /\ shown.final = Last(equity_curve)
            /\ shown.total_return.den = INITIAL_CAPITAL * PRICE_SCALE
            /\ shown.total_return.num = Last(equity_curve) - INITIAL_CAPITAL * PRICE_SCALE
            /\ shown = Figures(trade_log, equity_curve)

\* C17: _show_summary can be invoked in any reachable state and runs
\* through, no state making its division by the peak fail; it leaves cash,
\* position, trade log, equity curve, markers, cursor and session bars as
\* they were; the figures it shows are functions of the trade log and the
\* equity curve only (total return = last equity / initial capital - 1).
C17_SummaryIsPure ==
    /\ [](trade_log # <<>> => ~MaxDrawdown(equity_curve).err)
    /\ [](notice.title # "crash")
    /\ [][SummaryStep => UNCHANGED <<cash, position, trade_log, equity_curve, buy_signals,
                                     sell_signals, current_index, current_data>>]_vars
    /\ [](FiguresFromLogAndCurve)
    /\ [][(SummaryStep /\ trade_log # <<>>) => summary' # NoSummary]_vars

\* C17 witness: the figures are on screen in mid-session, with a position
\* open and bars still to trade.
C17_Witness ==
    /\ summary # NoSummary
    /\ notice = Notice("stats", "result")
    /\ position > 0
    /\ NonTerminal
    /\ SessionStarted
    /\ Len(trade_log) >= 2

\* ------------------------------------------------------------ read_day_file on its own

\* The most whole records a buffer is made of.
MaxRecords == 2

\* Records as a file stores them: date, open, high, low, close (hundredths),
\* the bit pattern of the amount, volume, reserved. The third carries a
\* date with month 13.
SampleRecords ==
    {<<20010105, 123456, 130000, 120001, 125050, 1234567890, 987654, 77>>,
     <<20010108, 3050, 3300, 2999, 3142, 305419896, 65793, 0>>,
     <<20011301, 1000, 1100, 900, 1050, 0, 500, 3>>}

\* The bytes a buffer may end on after its whole records: the first bytes
\* of one more record, fewer than RECORD_SIZE of them.
TailSource == PackFile(<<<<20010109, 4000, 4100, 3900, 4050, 16909060, 4321, 9>>>>)

\* The buffers f.read() may return: up to MaxRecords whole records followed
\* by a cut record of 0..31 bytes.
Buffers ==
    {PackFile(records) \o SubSeq(TailSource, 1, tail) :
        records \in UNION {[1..n -> SampleRecords] : n \in 0..MaxRecords},
        tail \in 0..(RECORD_SIZE - 1)}

\* A simulator just built, and the bytes read_day_file is about to decode.
InitDecode ==
    /\ current_data = <<>>
    /\ current_index = START_INDEX
    /\ cash = InitialCash
    /\ position = 0
    /\ trade_log = <<>>
    /\ equity_curve = <<InitialCash>>
    /\ buy_signals = <<>>
    /\ sell_signals = <<>>
    /\ notice = Notice("info", "ready")
    /\ summary = NoSummary
    /\ buffer \in Buffers

\* self.current_data = read_day_file(...) and nothing more: the frame is
\* kept, or the ValueError is reported.
ReadDayFile ==
    LET r == read_day_file(buffer)
    IN  /\ IF r.err
           THEN /\ notice' = Notice("init_failed", "decode_error")
                /\ UNCHANGED current_data
           ELSE /\ notice' = Notice("info", "decoded")
                /\ current_data' = r.data
        /\ UNCHANGED <<ledger, summary, buffer>>

NextDecode == ReadDayFile

SpecDecode == InitDecode /\ [][NextDecode]_vars

\* The unsigned integer four bytes store, least significant byte first.
LittleEndian(b) == b[1] + 256 * (b[2] + 256 * (b[3] + 256 * b[4]))

\* The k-th 4-byte field (k from 1) of the i-th record (i from 0) of a buffer.
FieldOf(bytes, i, k) ==
    LittleEndian(SubSeq(bytes, RECORD_SIZE * i + 4 * (k - 1) + 1, RECORD_SIZE * i + 4 * k))

\* The bar the bytes 32i..32i+31 of a buffer stand for: prices are the
\* stored integers over 100, that is, the stored integers in hundredths.
BarOf(bytes, i) ==
    [Date |-> FieldOf(bytes, i, 1), Open |-> FieldOf(bytes, i, 2), High |-> FieldOf(bytes, i, 3),
     Low |-> FieldOf(bytes, i, 4), Close |-> FieldOf(bytes, i, 5), Volume |-> FieldOf(bytes, i, 7)]

\* The longest prefix of a buffer that is a whole number of records.
WholePrefix(bytes) == SubSeq(bytes, 1, RECORD_SIZE * (Len(bytes) \div RECORD_SIZE))

\* C18: a buffer of any length L whose dates parse decodes to exactly
\* floor(L / 32) bars, bar i (from 0) being the bar of bytes 32i..32i+31
\* alone: each price the stored integer over 100, the volume the seventh
\* 4-byte field. A buffer that ends in a cut record decodes as its longest
\* whole-record prefix does, and the cut record raises no error: the only
\* decode error is a date that does not parse.
C18_DecodeByRecord ==
    /\ read_day_file(buffer) = read_day_file(WholePrefix(buffer))
    /\ notice = Notice("info", "decoded") =>
           /\ Len(current_data) = Len(buffer) \div RECORD_SIZE
           /\ \A i \in 0..(Len(current_data) - 1) : current_data[i + 1] = BarOf(buffer, i)
    /\ notice = Notice("init_failed", "decode_error") =>
           \E i \in 0..((Len(buffer) \div RECORD_SIZE) - 1) : ~DateParses(FieldOf(buffer, i, 1))
    /\ ENABLED ReadDayFile

\* C18 witness: two bars decoded from a buffer that ends in a cut record.
C18_Witness ==
    /\ notice = Notice("info", "decoded")
    /\ Len(buffer) % RECORD_SIZE # 0
    /\ Len(current_data) = MaxRecords
    /\ current_data[1] # current_data[2]

\* A step of _start_simulation that ended in the except block.
FailedStart == notice'.title = "init_failed"

\* C19: the session bars are replaced only by a successful start: in every
\* reachable state they are empty or exactly required_days (185 in the
\* source) bars, every failed start (no market, missing directory, no
\* files, decode error, insufficient history) leaves the bars as they
\* were, and no buy, sell or hold is accepted against bars that did not
\* pass the length check.
C19_BarsOnlyFromSuccessfulStart ==
    /\ [](current_data = <<>> \/ Len(current_data) = required_days)
    /\ [][current_data' # current_data => SuccessfulStart]_vars
    /\ [][FailedStart => UNCHANGED current_data]_vars
    /\ [][Accepted => Len(current_data) = required_days]_vars

\* What holds of C19: a start that fails before or inside read_day_file
\* (no market, missing directory, no files, decode error) leaves the bars
\* and the ledger as they were, and the bars change only in a step of
\* _start_simulation that got past read_day_file.
C19_EarlyFailuresKeepBars ==
    /\ [][(FailedStart /\ notice'.text # "insufficient_history")
            => UNCHANGED <<current_data, ledger>>]_vars
    /\ [][current_data' # current_data
            => \/ SuccessfulStart
               \/ notice' = Notice("init_failed", "insufficient_history")]_vars

IsBuyOrSell(record) == record.action \in {"buy", "sell"}

\* The buy and sell records of the log, in order, holds left out.
BuysAndSells == SelectSeq(trade_log, IsBuyOrSell)

\* The records of the log with the given action.
RecordsOf(action) == {i \in 1..Len(trade_log) : trade_log[i].action = action}

\* Buys and sells alternate from a buy on; there is one more buy than
\* sells exactly while a position is held; the win-rate loop counts one
\* pair per sell record.
BuysAndSellsAlternate ==
    /\ \A i \in 1..Len(BuysAndSells) :
           BuysAndSells[i].action = IF i % 2 = 1 THEN "buy" ELSE "sell"
    /\ Cardinality(RecordsOf("buy")) - Cardinality(RecordsOf("sell")) \in {0, 1}
    /\ Cardinality(RecordsOf("buy")) - Cardinality(RecordsOf("sell")) = 1 <=> position > 0
    /\ \A j \in RecordsOf("sell") :
           \E i \in RecordsOf("buy") : i < j /\ <<i, j>> \in PairsOf(trade_log)
    /\ PairTrades(trade_log, 1, 0, 0, None).total_trades = Cardinality(RecordsOf("sell"))

\* The markers are the records of the action, one marker per record, at
\* the record's date and price.
MarkersMatch(signals, action) ==
    /\ Cardinality(DOMAIN signals) = Cardinality(RecordsOf(action))
    /\ DOMAIN signals = {trade_log[i].date : i \in RecordsOf(action)}
    /\ \A i \in RecordsOf(action) : signals[trade_log[i].date] = trade_log[i].price

\* C20: in every reachable trade log the buy and sell records, holds
\* ignored, alternate starting with a buy: #buys - #sells is 0 or 1, and 1
\* exactly when position > 0; every sell has a pending buy before it, the
\* win-rate loop counts as many pairs as there are sell records, and the
\* buy and sell markers hold exactly one entry per buy and sell record, at
\* that record's date and price.
C20_AlternationAndMarkers ==
    /\ BuysAndSellsAlternate
    /\ MarkersMatch(buy_signals, "buy")
    /\ MarkersMatch(sell_signals, "sell")

\* What holds of C20: the alternation, the counts and the pairing in every
\* reachable state, and the markers as long as the bars are those a
\* successful start installed.
C20_AlternationHolds ==
    /\ BuysAndSellsAlternate
    /\ SessionStarted => MarkersMatch(buy_signals, "buy") /\ MarkersMatch(sell_signals, "sell")

=========================================================================
